---- MODULE Spec2Model ----
(***************************************************************************)
(* Model of src-tauri/src/lib.rs: the bookmark commands (get_bookmarks,    *)
(* delete_bookmark, update_bookmark_context) with the schema migration     *)
(* run_migrations over one SQLite file, and the startup provisioning of    *)
(* the helper script (copy_mcp_server, the setup closure, get_server_path).*)
(*                                                                         *)
(* Text is a sequence of byte values.  An SQL cell is NULL or a text; an   *)
(* Option<String> is None or Some(text).  The bookmarks table is a set of  *)
(* rows, each a function from the table's column names to cells.           *)
(***************************************************************************)
EXTENDS Integers, Sequences, FiniteSets, TLC

\* Largest number of rows the bookmarks table holds in an initial state.
MaxRows == 2
\* Largest number of bytes of a bundled or installed helper script.
MaxFileLen == 2

-----------------------------------------------------------------------------
(* Values *)

\* Bookmark names the model draws from: "", "a", "ab", "b".
Names == {<< >>, <<97>>, <<97, 98>>, <<98>>}
\* node_id texts: "1", "2".
NodeIdTexts == {<<49>>, <<50>>}
\* created_at texts: "T".
CreatedAtTexts == {<<84>>}
\* context texts: "x", "y".
ContextTexts == {<<120>>, <<121>>}

Null == [type |-> "null", text |-> << >>]
Text(t) == [type |-> "text", text |-> t]

None == [some |-> FALSE, text |-> << >>]
Some(t) == [some |-> TRUE, text |-> t]

\* Columns of the bookmarks table as its creator makes it, before the
\* context column was introduced.
BaseColumns == {"name", "node_id", "created_at"}

\* The value a Rust Option<String> parameter binds to in a statement.
ToSql(opt) == IF opt.some THEN Text(opt.text) ELSE Null

\* row.get::<_, String>: a text cell decodes, NULL does not.
GetString(cell) ==
    IF cell.type = "text" THEN [ok |-> TRUE, text |-> cell.text]
                          ELSE [ok |-> FALSE, text |-> << >>]

\* row.get::<_, Option<String>>: NULL decodes to None, a text to Some.
GetOption(cell) == IF cell.type = "null" THEN None ELSE Some(cell.text)

Min(S) == CHOOSE m \in S : \A n \in S : m <= n

\* SQLite's BINARY collation on two texts: memcmp over the common prefix,
\* then the shorter text first.
BinaryLess(a, b) ==
    LET n == IF Len(a) < Len(b) THEN Len(a) ELSE Len(b)
        diff == {i \in 1..n : a[i] # b[i]}
    IN  IF diff = {} THEN Len(a) < Len(b)
        ELSE a[Min(diff)] < b[Min(diff)]

\* Order of two cells under ORDER BY: NULL sorts before every text.
CellLess(x, y) ==
    IF x.type = "null" THEN y.type = "text"
    ELSE y.type = "text" /\ BinaryLess(x.text, y.text)

Result(ok, err, value) == [ok |-> ok, err |-> err, value |-> value]
Ok(value) == Result(TRUE, "", value)
Err(msg) == Result(FALSE, msg, << >>)

-----------------------------------------------------------------------------
(* The store file <app_data_dir>/bookmarks.db *)

\* file: the file exists; valid: it is an SQLite database; table: it has a
\* bookmarks table, with the given columns and rows.
Db(file, valid, table, columns, rows) ==
    [file |-> file, valid |-> valid, table |-> table,
     columns |-> columns, rows |-> rows]

NoFile == Db(FALSE, FALSE, FALSE, {}, {})
NotADatabase == Db(TRUE, FALSE, FALSE, {}, {})
NoTable == Db(TRUE, TRUE, FALSE, {}, {})

VARIABLES
    app_data_dir,   \* what app.path().app_data_dir() gives: [ok, path]
    resource_dir,   \* what app.path().resource_dir() gives: [ok, path]
    db,             \* the store file
    pre,            \* the store file before the last command
    call,           \* the last command and its arguments
    ret,            \* the Result the last command returned
    pc,             \* "start" before the setup closure has run, then "running"
    fs,             \* the helper script's files and the app data directory
    pre_fs,         \* fs before the setup closure ran
    copied,         \* the Result of copy_mcp_server in the setup closure
    setup,          \* the Result of the setup closure and the stream it wrote to
    server_path     \* the Result of the last get_server_path

storeVars == <<db, pre, call, ret>>
provVars == <<resource_dir, pc, fs, pre_fs, copied, setup, server_path>>

-----------------------------------------------------------------------------
(* SQL statements of the commands *)

SqlResult(ok, err, d, out) == [ok |-> ok, err |-> err, db |-> d, out |-> out]

\* PRAGMA table_info(bookmarks), column 1 of every row: the column names.
\* A table that does not exist yields no rows and no error.
TableInfo(d) ==
    IF ~d.valid THEN SqlResult(FALSE, "file is not a database", d, {})
    ELSE SqlResult(TRUE, "", d, IF d.table THEN d.columns ELSE {})

\* ALTER TABLE bookmarks ADD COLUMN context TEXT: every row gets NULL.
AlterAddContext(d) ==
    IF ~d.valid THEN SqlResult(FALSE, "file is not a database", d, {})
    ELSE IF ~d.table THEN SqlResult(FALSE, "no such table: bookmarks", d, {})
    ELSE IF "context" \in d.columns
         THEN SqlResult(FALSE, "duplicate column name: context", d, {})
    ELSE SqlResult(TRUE, "",
            [d EXCEPT !.columns = @ \cup {"context"},
                      !.rows = {[c \in d.columns \cup {"context"} |->
                                    IF c = "context" THEN Null ELSE r[c]] : r \in d.rows}],
            {})

\* ORDER BY name DESC in place of ORDER BY name.
RECURSIVE OrderByNameDesc(_)
OrderByNameDesc(S) ==
    IF S = {} THEN << >>
    ELSE LET first == CHOOSE r \in S : \A o \in S : ~CellLess(r["name"], o["name"])
         IN  <<first>> \o OrderByNameDesc(S \ {first})

\* The rows of S ascending by name.
RECURSIVE OrderByName(_)
OrderByName(S) ==
    IF S = {} THEN << >>
    ELSE LET first == CHOOSE r \in S : \A o \in S : ~CellLess(o["name"], r["name"])
         IN  <<first>> \o OrderByName(S \ {first})

\* SELECT name, node_id, context, created_at FROM bookmarks ORDER BY name
SelectBookmarks(d) ==
    IF ~d.valid THEN SqlResult(FALSE, "file is not a database", d, << >>)
    ELSE IF ~d.table THEN SqlResult(FALSE, "no such table: bookmarks", d, << >>)
    ELSE IF "context" \notin d.columns
         THEN SqlResult(FALSE, "no such column: context", d, << >>)
    ELSE SqlResult(TRUE, "", d, OrderByName(d.rows))

\* DELETE FROM bookmarks with the WHERE clause lost.
DeleteAll(d, name) ==
    IF ~d.valid THEN SqlResult(FALSE, "file is not a database", d, {})
    ELSE IF ~d.table THEN SqlResult(FALSE, "no such table: bookmarks", d, {})
    ELSE SqlResult(TRUE, "", [d EXCEPT !.rows = {}], {})

\* DELETE FROM bookmarks WHERE name = ?
DeleteWhereName(d, name) ==
    IF ~d.valid THEN SqlResult(FALSE, "file is not a database", d, {})
    ELSE IF ~d.table THEN SqlResult(FALSE, "no such table: bookmarks", d, {})
    ELSE SqlResult(TRUE, "",
            [d EXCEPT !.rows = {r \in d.rows : r["name"] # Text(name)}], {})

\* UPDATE bookmarks SET node_id = ? WHERE name = ?: the wrong column is set.
UpdateNodeIdWhereName(d, context, name) ==
    IF ~d.valid THEN SqlResult(FALSE, "file is not a database", d, {})
    ELSE IF ~d.table THEN SqlResult(FALSE, "no such table: bookmarks", d, {})
    ELSE SqlResult(TRUE, "",
            [d EXCEPT !.rows = {IF r["name"] = Text(name)
                                THEN [r EXCEPT !["node_id"] = ToSql(context)]
                                ELSE r : r \in d.rows}], {})

\* UPDATE bookmarks SET context = ? WHERE name = ?
UpdateContextWhereName(d, context, name) ==
    IF ~d.valid THEN SqlResult(FALSE, "file is not a database", d, {})
    ELSE IF ~d.table THEN SqlResult(FALSE, "no such table: bookmarks", d, {})
    ELSE IF "context" \notin d.columns
         THEN SqlResult(FALSE, "no such column: context", d, {})
    ELSE SqlResult(TRUE, "",
            [d EXCEPT !.rows = {IF r["name"] = Text(name)
                                THEN [r EXCEPT !["context"] = ToSql(context)]
                                ELSE r : r \in d.rows}], {})

-----------------------------------------------------------------------------
(* run_migrations and the commands, as functions of the store *)

\* What a function leaves behind: its Result and the store afterwards.
Outcome(r, d) == [ret |-> r, db |-> d]

\* run_migrations without the test for the column: it always alters.
run_migrations_unconditional(d) ==
    LET info == TableInfo(d)
    IN  IF ~info.ok THEN Outcome(Err("Failed to get table info"), d)
        ELSE LET alter == AlterAddContext(d)
             IN  IF ~alter.ok THEN Outcome(Err("Failed to add context column"), d)
                 ELSE Outcome(Ok(<< >>), alter.db)

run_migrations(d) ==
    LET info == TableInfo(d)
    IN  IF ~info.ok THEN Outcome(Err("Failed to get table info"), d)
        ELSE IF "context" \notin info.out
        THEN LET alter == AlterAddContext(d)
             IN  IF ~alter.ok THEN Outcome(Err("Failed to add context column"), d)
                 ELSE Outcome(Ok(<< >>), alter.db)
        ELSE Outcome(Ok(<< >>), d)

\* The closure of query_map in get_bookmarks: one row to one Bookmark.
DecodeBookmark(r) ==
    LET name == GetString(r["name"])
        node_id == GetString(r["node_id"])
    IN  [ok |-> name.ok /\ node_id.ok,
         bookmark |-> [name |-> name.text, node_id |-> node_id.text,
                       context |-> GetOption(r["context"]),
                       created_at |-> GetOption(r["created_at"])]]

\* filter_map(|r| r.ok()).collect(): the rows that decode, in order.
RECURSIVE CollectOk(_)
CollectOk(rs) ==
    IF rs = << >> THEN << >>
    ELSE LET b == DecodeBookmark(Head(rs))
         IN  (IF b.ok THEN <<b.bookmark>> ELSE << >>) \o CollectOk(Tail(rs))

\* get_bookmarks with the query run before the migration.
get_bookmarks_query_first(dir, d) ==
    IF ~dir.ok THEN Outcome(Err("Failed to get app data dir"), d)
    ELSE IF ~d.file THEN Outcome(Ok(<< >>), d)
    ELSE LET q == SelectBookmarks(d)
         IN  IF ~q.ok THEN Outcome(Err("Failed to prepare query"), d)
             ELSE LET m == run_migrations(d)
                  IN  IF ~m.ret.ok THEN Outcome(m.ret, m.db)
                      ELSE Outcome(Ok(CollectOk(q.out)), m.db)

\* get_bookmarks with the Result of run_migrations dropped.
get_bookmarks_ignore_migration(dir, d) ==
    IF ~dir.ok THEN Outcome(Err("Failed to get app data dir"), d)
    ELSE IF ~d.file THEN Outcome(Ok(<< >>), d)
    ELSE LET m == run_migrations(d)
             q == SelectBookmarks(m.db)
         IN  IF ~q.ok THEN Outcome(Err("Failed to prepare query"), m.db)
             ELSE Outcome(Ok(CollectOk(q.out)), m.db)

get_bookmarks(dir, d) ==
    IF ~dir.ok THEN Outcome(Err("Failed to get app data dir"), d)
    ELSE IF ~d.file THEN Outcome(Ok(<< >>), d)
    ELSE LET m == run_migrations(d)
         IN  IF ~m.ret.ok THEN Outcome(m.ret, m.db)
             ELSE LET q == SelectBookmarks(m.db)
                  IN  IF ~q.ok THEN Outcome(Err("Failed to prepare query"), m.db)
                      ELSE Outcome(Ok(CollectOk(q.out)), m.db)

\* delete_bookmark without the test for the file: Connection::open creates
\* an empty database, in which the statement finds no table.
delete_bookmark_unchecked(dir, d, name) ==
    IF ~dir.ok THEN Outcome(Err("Failed to get app data dir"), d)
    ELSE LET opened == IF d.file THEN d ELSE NoTable
             x == DeleteWhereName(opened, name)
         IN  IF ~x.ok THEN Outcome(Err("Failed to delete bookmark"), opened)
             ELSE Outcome(Ok(<< >>), x.db)

delete_bookmark(dir, d, name) ==
    IF ~dir.ok THEN Outcome(Err("Failed to get app data dir"), d)
    ELSE IF ~d.file THEN Outcome(Err("Database not found"), d)
    ELSE LET x == DeleteWhereName(d, name)
         IN  IF ~x.ok THEN Outcome(Err("Failed to delete bookmark"), d)
             ELSE Outcome(Ok(<< >>), x.db)

update_bookmark_context(dir, d, name, context) ==
    IF ~dir.ok THEN Outcome(Err("Failed to get app data dir"), d)
    ELSE IF ~d.file THEN Outcome(Err("Database not found"), d)
    ELSE LET x == UpdateContextWhereName(d, context, name)
         IN  IF ~x.ok THEN Outcome(Err("Failed to update bookmark"), d)
             ELSE Outcome(Ok(<< >>), x.db)

-----------------------------------------------------------------------------
(* Initial states *)

\* The directory is unknown, or "/d", or "/d\xFF" (not valid UTF-8).
AppDataDirs == {[ok |-> FALSE, path |-> << >>],
                [ok |-> TRUE, path |-> << <<100>> >>]}
StartupAppDataDirs == AppDataDirs \cup {[ok |-> TRUE, path |-> << <<100, 255>> >>]}

Options(texts) == {None} \cup {Some(t) : t \in texts}
Cells(texts) == {Null} \cup {Text(t) : t \in texts}

\* A row of the table with the given columns.
Row(columns, name, node_id, created_at, context) ==
    [c \in columns |->
        CASE c = "name" -> Text(name)
          [] c = "node_id" -> Text(node_id)
          [] c = "created_at" -> created_at
          [] OTHER -> context]

\* The table with the given columns and one row for every name in N, the
\* other cells of the row named n being a[n].
Table(columns, N, a) ==
    Db(TRUE, TRUE, TRUE, columns,
       {Row(columns, n, a[n][1], a[n][2], a[n][3]) : n \in N})

\* d is a store file the application can find: no file, a file that is not
\* a database, a database without the table, or a table of at most MaxRows
\* rows with unique names, with or without the context column.
IsStore(d) ==
    \/ d \in {NoFile, NotADatabase, NoTable}
    \/ \E columns \in {BaseColumns, BaseColumns \cup {"context"}} :
         \E N \in {S \in SUBSET Names : Cardinality(S) <= MaxRows} :
            \E a \in [N -> NodeIdTexts \X Cells(CreatedAtTexts)
                            \X (IF "context" \in columns
                                THEN Cells(ContextTexts) ELSE {Null})] :
                d = Table(columns, N, a)

NoCall == [op |-> "none", name |-> << >>, context |-> None]

-----------------------------------------------------------------------------
(* Paths and the helper script's files *)

\* "server.cjs"
ServerCjs == <<115, 101, 114, 118, 101, 114, 46, 99, 106, 115>>
\* "_up_", "dist-mcp"
UpDir == <<95, 117, 112, 95>>
DistMcp == <<100, 105, 115, 116, 45, 109, 99, 112>>

ResourceDirs == {[ok |-> FALSE, path |-> << >>], [ok |-> TRUE, path |-> << <<114>> >>]}

\* PathBuf::join with one more component.
Join(path, component) == Append(path, component)

\* Path::to_string_lossy().to_string(): the components after "/", every byte
\* that is not valid UTF-8 replaced by U+FFFD.
RECURSIVE ToStringLossy(_)
ToStringLossy(path) ==
    IF path = << >> THEN << >>
    ELSE <<47>> \o [i \in 1..Len(Head(path)) |->
                       IF Head(path)[i] >= 128 THEN 65533 ELSE Head(path)[i]]
               \o ToStringLossy(Tail(path))

File(exists, bytes) == [exists |-> exists, bytes |-> bytes]
Absent == File(FALSE, << >>)
Bytes == UNION {[1..n -> {0, 1}] : n \in 0..MaxFileLen}
Files == {Absent} \cup {File(TRUE, b) : b \in Bytes}

\* bundled: the file at <resource_dir>/_up_/dist-mcp/server.cjs;
\* installed: the file at <app_data_dir>/server.cjs; dir: the app data
\* directory exists; creatable: it can be created; writable: a file in it
\* can be created or overwritten.
Fs(bundled, installed, dir, creatable, writable) ==
    [bundled |-> bundled, installed |-> installed, dir |-> dir,
     creatable |-> creatable, writable |-> writable]

NoFs == Fs(Absent, Absent, FALSE, FALSE, FALSE)

\* std::fs::create_dir_all(&app_data)
CreateDirAll(f) ==
    IF f.dir THEN [ok |-> TRUE, fs |-> f]
    ELSE IF f.creatable THEN [ok |-> TRUE, fs |-> [f EXCEPT !.dir = TRUE]]
    ELSE [ok |-> FALSE, fs |-> f]

\* A copy that keeps a file already installed.
FsCopyIfMissing(f) ==
    IF f.bundled.exists /\ f.dir /\ f.writable
    THEN [ok |-> TRUE,
          fs |-> IF f.installed.exists THEN f
                 ELSE [f EXCEPT !.installed = File(TRUE, f.bundled.bytes)]]
    ELSE [ok |-> FALSE, fs |-> f]

\* std::fs::copy(&source, &dest): dest is created or truncated and gets the
\* bytes of source.
FsCopy(f) ==
    IF f.bundled.exists /\ f.dir /\ f.writable
    THEN [ok |-> TRUE, fs |-> [f EXCEPT !.installed = File(TRUE, f.bundled.bytes)]]
    ELSE [ok |-> FALSE, fs |-> f]

\* source, as copy_mcp_server computes it, and where the bundle has the script.
SourcePath(res) == Join(Join(Join(res.path, UpDir), DistMcp), ServerCjs)
BundledPath(res) == res.path \o <<UpDir, DistMcp, ServerCjs>>

\* source.exists()
SourceExists(res, f) == SourcePath(res) = BundledPath(res) /\ f.bundled.exists

\* dest in copy_mcp_server
DestPath(dir) == Join(dir.path, ServerCjs)

ProvOutcome(r, f) == [ret |-> r, fs |-> f]

copy_mcp_server(dir, res, f) ==
    IF ~dir.ok THEN ProvOutcome(Err("Failed to get app data dir"), f)
    ELSE IF ~res.ok THEN ProvOutcome(Err("Failed to get resource dir"), f)
    ELSE IF SourceExists(res, f)
    THEN LET mk == CreateDirAll(f)
         IN  IF ~mk.ok THEN ProvOutcome(Err("Failed to create data dir"), f)
             ELSE LET cp == FsCopy(mk.fs)
                  IN  IF ~cp.ok THEN ProvOutcome(Err("Failed to copy server"), mk.fs)
                      ELSE ProvOutcome(Ok(DestPath(dir)), cp.fs)
    ELSE ProvOutcome(Ok(DestPath(dir)), f)

\* The setup closure of run: the copy's Result goes to stdout or stderr and
\* the closure returns Ok(()).
SetupResult(c) == [ok |-> TRUE, stream |-> IF c.ok THEN "stdout" ELSE "stderr"]

get_server_path(dir) ==
    IF ~dir.ok THEN Err("Failed to get app data dir")
    ELSE Ok(ToStringLossy(Join(dir.path, ServerCjs)))

-----------------------------------------------------------------------------
(* Initial states *)

NotSetUp == [ok |-> FALSE, stream |-> "none"]

\* The application is running and the front end works on the bookmarks.
Init ==
    /\ app_data_dir \in AppDataDirs
    /\ IF app_data_dir.ok THEN IsStore(db) ELSE db = NoFile
    /\ pre = db
    /\ call = NoCall
    /\ ret = Ok(<< >>)
    /\ pc = "running"
    /\ resource_dir \in {r \in ResourceDirs : r.ok}
    /\ fs = NoFs
    /\ pre_fs = NoFs
    /\ copied = copy_mcp_server(app_data_dir, resource_dir, fs).ret
    /\ setup = SetupResult(copied)
    /\ server_path = Ok(<< >>)

\* The application starts: any bundle, any state of the app data directory.
InitProv ==
    /\ app_data_dir \in StartupAppDataDirs
    /\ resource_dir \in ResourceDirs
    /\ \E b \in (IF resource_dir.ok THEN Files ELSE {Absent}),
          i \in (IF app_data_dir.ok THEN Files ELSE {Absent}),
          d \in BOOLEAN, c \in BOOLEAN, w \in BOOLEAN :
            /\ i.exists => d
            /\ ~app_data_dir.ok => ~(d \/ c \/ w)
            /\ fs = Fs(b, i, d, c, w)
    /\ pre_fs = fs
    /\ pc = "start"
    /\ copied = Err("")
    /\ setup = NotSetUp
    /\ server_path = Ok(<< >>)
    /\ db = NoFile
    /\ pre = NoFile
    /\ call = NoCall
    /\ ret = Ok(<< >>)

-----------------------------------------------------------------------------
(* Startup *)

Setup ==
    /\ pc = "start"
    /\ LET o == copy_mcp_server(app_data_dir, resource_dir, fs)
       IN  /\ pre_fs' = fs
           /\ fs' = o.fs
           /\ copied' = o.ret
           /\ setup' = SetupResult(o.ret)
    /\ pc' = "running"
    /\ UNCHANGED <<app_data_dir, resource_dir, server_path, storeVars>>

-----------------------------------------------------------------------------
(* The commands the front end invokes *)

GetServerPath ==
    /\ pc = "running"
    /\ server_path' = get_server_path(app_data_dir)
    /\ call' = [op |-> "get_server_path", name |-> << >>, context |-> None]
    /\ UNCHANGED <<app_data_dir, resource_dir, pc, fs, pre_fs, copied, setup,
                   db, pre, ret>>

GetBookmarks ==
    /\ pc = "running"
    /\ LET o == get_bookmarks(app_data_dir, db)
       IN  /\ pre' = db
           /\ call' = [op |-> "get_bookmarks", name |-> << >>, context |-> None]
           /\ ret' = o.ret
           /\ db' = o.db
    /\ UNCHANGED <<app_data_dir, provVars>>

DeleteBookmark ==
    /\ pc = "running"
    /\ \E name \in Names :
        LET o == delete_bookmark(app_data_dir, db, name)
        IN  /\ pre' = db
            /\ call' = [op |-> "delete_bookmark", name |-> name, context |-> None]
            /\ ret' = o.ret
            /\ db' = o.db
    /\ UNCHANGED <<app_data_dir, provVars>>

UpdateBookmarkContext ==
    /\ pc = "running"
    /\ \E name \in Names, context \in Options(ContextTexts) :
        LET o == update_bookmark_context(app_data_dir, db, name, context)
        IN  /\ pre' = db
            /\ call' = [op |-> "update_bookmark_context", name |-> name,
                        context |-> context]
            /\ ret' = o.ret
            /\ db' = o.db
    /\ UNCHANGED <<app_data_dir, provVars>>

vars == <<app_data_dir, resource_dir, db, pre, call, ret, pc, fs, pre_fs,
          copied, setup, server_path>>

Next == GetBookmarks \/ DeleteBookmark \/ UpdateBookmarkContext

Spec == Init /\ [][Next]_vars

NextProv == Setup \/ GetServerPath

SpecProv == InitProv /\ [][NextProv]_vars

-----------------------------------------------------------------------------
(* Vocabulary of the properties *)

\* The store file exists at the resolved path and has a bookmarks table.
HasTable(d) == d.file /\ d.valid /\ d.table
HasContext(d) == HasTable(d) /\ "context" \in d.columns

NamesOf(d) == {r["name"].text : r \in d.rows}
DistinctNames(d) == Cardinality(NamesOf(d)) = Cardinality(d.rows)

\* The context of a row as a reader sees it: absent when the table has no
\* such column or the cell is NULL.
ContextOf(r) ==
    IF "context" \in DOMAIN r /\ r["context"].type = "text"
    THEN Some(r["context"].text) ELSE None

\* The record a listing shows for a row.
Shown(r) ==
    [name |-> r["name"].text, node_id |-> r["node_id"].text,
     context |-> ContextOf(r),
     created_at |-> IF r["created_at"].type = "text"
                    THEN Some(r["created_at"].text) ELSE None]

\* What no command may change in a bookmark.
Identity(r) == <<r["name"], r["node_id"], r["created_at"]>>
Identities(d) == {Identity(r) : r \in d.rows}

Listed(v) == {v[i] : i \in 1..Len(v)}
Ascending(v) == \A i, j \in 1..Len(v) : i < j => BinaryLess(v[i].name, v[j].name)

Returned(op) == pc = "running" /\ app_data_dir.ok /\ call.op = op

-----------------------------------------------------------------------------
(* Properties *)

\* C1: on an existing store whose bookmarks table holds N rows with pairwise
\* distinct names, get_bookmarks succeeds and returns exactly N records, one
\* per row, in ascending lexicographic order of name.
ListReturnsEveryRowSorted ==
    (Returned("get_bookmarks") /\ HasTable(pre) /\ DistinctNames(pre)) =>
        /\ ret.ok
        /\ Len(ret.value) = Cardinality(pre.rows)
        /\ Listed(ret.value) = {Shown(r) : r \in pre.rows}
        /\ Ascending(ret.value)

ListedTwoRows ==
    /\ Returned("get_bookmarks") /\ HasTable(pre) /\ ret.ok
    /\ NamesOf(pre) = {<<97, 98>>, <<98>>}
    /\ Len(ret.value) = 2

\* C2: when the store file does not exist at its path, get_bookmarks returns
\* the empty sequence and no error, delete_bookmark and
\* update_bookmark_context return the error "Database not found" for every
\* name and context, and the file is still absent afterwards.
MissingStoreFile ==
    (pc = "running" /\ app_data_dir.ok /\ call.op # "none"
        /\ call.op # "get_server_path" /\ ~pre.file) =>
        /\ ~db.file /\ db = pre
        /\ call.op = "get_bookmarks" => ret = Ok(<< >>)
        /\ call.op \in {"delete_bookmark", "update_bookmark_context"}
              => ret = Err("Database not found")

UpdatedMissingStoreFile ==
    /\ Returned("update_bookmark_context") /\ ~pre.file
    /\ call.context = Some(<<120>>)
    /\ ret = Err("Database not found")

\* C3: on an existing store with a bookmarks table, whether or not the
\* migration has run on it, update_bookmark_context with a name that matches
\* no row reports success and changes no row.
UpdateOfUnknownNameSucceeds ==
    (Returned("update_bookmark_context") /\ HasTable(pre)
        /\ call.name \notin NamesOf(pre)) =>
        ret.ok /\ db.rows = pre.rows

\* C4: delete_bookmark(x) on an existing store with no row named x returns
\* success and leaves every row unchanged; when a row named x exists, exactly
\* that row is removed and all other rows are unchanged.
DeleteRemovesExactlyTheNamedRow ==
    (Returned("delete_bookmark") /\ HasTable(pre)) =>
        /\ ret.ok
        /\ db.columns = pre.columns
        /\ IF call.name \in NamesOf(pre)
           THEN /\ db.rows = {r \in pre.rows : r["name"].text # call.name}
                /\ Cardinality(db.rows) = Cardinality(pre.rows) - 1
           ELSE /\ db.rows = pre.rows
                /\ Cardinality(db.rows) = Cardinality(pre.rows)

DeletedUnknownName ==
    /\ Returned("delete_bookmark") /\ HasTable(pre)
    /\ Cardinality(pre.rows) = 2
    /\ call.name \notin NamesOf(pre)
    /\ ret.ok

\* C5: update_bookmark_context(x, None) on a bookmark x whose context was not
\* null succeeds and clears it, leaving the context of every other bookmark
\* unchanged; and after update_bookmark_context(x, c) on a bookmark x the next
\* get_bookmarks shows context = c for x.
UpdateClearsContext ==
    (Returned("update_bookmark_context") /\ HasTable(pre)
        /\ call.context = None
        /\ \E r \in pre.rows : r["name"].text = call.name /\ ContextOf(r) # None) =>
        /\ ret.ok
        /\ \A r \in db.rows : r["name"].text = call.name => ContextOf(r) = None
        /\ {r \in db.rows : r["name"].text # call.name}
             = {r \in pre.rows : r["name"].text # call.name}

UpdateThenListStep ==
    (Returned("update_bookmark_context") /\ HasTable(db)
        /\ call.name \in NamesOf(db)
        /\ call'.op = "get_bookmarks") =>
        /\ ret'.ok
        /\ \E i \in 1..Len(ret'.value) :
              ret'.value[i].name = call.name /\ ret'.value[i].context = call.context

\* C5, both halves: the clearing update, and the update shown by the next
\* get_bookmarks.
UpdateIsShownByNextList == [](UpdateClearsContext) /\ [][UpdateThenListStep]_vars

\* C6: run_migrations is idempotent: on a store with a bookmarks table a call
\* right after a successful call returns no error and leaves the columns and
\* the rows as they are, and a call on a table that has the context column
\* changes nothing.
MigrationCameFirst == Returned("get_bookmarks") /\ HasTable(pre) /\ ret.ok

MigrationIsIdempotent ==
    /\ MigrationCameFirst => run_migrations(db) = Outcome(Ok(<< >>), db)
    /\ MigrationCameFirst =>
          run_migrations(run_migrations(pre).db) = run_migrations(pre)
    /\ HasContext(pre) => run_migrations(pre) = Outcome(Ok(<< >>), pre)
    /\ HasContext(db) => run_migrations(db) = Outcome(Ok(<< >>), db)

MigratedThenMigratedAgain ==
    /\ MigrationCameFirst
    /\ "context" \notin pre.columns /\ pre.rows # {}
    /\ run_migrations(pre).db = db
    /\ run_migrations(db).ret.ok

\* C7: within one get_bookmarks on an existing store the migration is done
\* before the rows are queried: on a bookmarks table without the context
\* column the command succeeds, returns every row with context absent and
\* leaves the table with the column; and once a get_bookmarks on an existing
\* store has succeeded, the column is there in every later state.
ListOfUnmigratedTable ==
    (Returned("get_bookmarks") /\ HasTable(pre) /\ "context" \notin pre.columns) =>
        /\ ret.ok
        /\ Listed(ret.value) = {Shown(r) : r \in pre.rows}
        /\ Len(ret.value) = Cardinality(pre.rows)
        /\ \A i \in 1..Len(ret.value) : ret.value[i].context = None
        /\ HasContext(db)

ListLeavesContextColumn ==
    (Returned("get_bookmarks") /\ pre.file /\ ret.ok) => HasContext(db)

ContextColumnStays == HasContext(db) => HasContext(db')

\* C7, both halves: the listing of a table without the column, and the
\* column staying once it is there.
MigrationBeforeQuery ==
    /\ [](ListOfUnmigratedTable /\ ListLeavesContextColumn)
    /\ [][ContextColumnStays]_vars

ListedUnmigratedTable ==
    /\ Returned("get_bookmarks") /\ HasTable(pre)
    /\ "context" \notin pre.columns
    /\ Cardinality(pre.rows) = 2
    /\ ret.ok /\ Len(ret.value) = 2
    /\ HasContext(db)

\* C8: a failure of the migration is surfaced: when the store file exists but
\* has no bookmarks table, or the inspection or the alteration fails
\* otherwise, run_migrations returns an error and get_bookmarks returns that
\* error instead of a list, without running the row query.
MigrationFailureIsReturned ==
    (Returned("get_bookmarks") /\ pre.file) =>
        /\ ~HasTable(pre) => ~run_migrations(pre).ret.ok
        /\ ~run_migrations(pre).ret.ok =>
              /\ ret = run_migrations(pre).ret
              /\ ~ret.ok /\ ret.value = << >>
              /\ ret.err \in {"Failed to get table info", "Failed to add context column"}
              /\ db = pre

ListedStoreWithoutTable ==
    /\ Returned("get_bookmarks") /\ pre = NoTable
    /\ ret = Err("Failed to add context column")

CanInstall(f) == (f.dir \/ f.creatable) /\ f.writable

IdentitiesOnlyShrink ==
    /\ Identities(db') \subseteq Identities(db)
    /\ Cardinality(db'.rows) = Cardinality(Identities(db'))

\* C10: the triples after a command are among those before it, in every
\* state and over every step.
BookmarkIdentityIsImmutable ==
    /\ [](Identities(db) \subseteq Identities(pre))
    /\ [][IdentitiesOnlyShrink]_vars

ContextUpdated ==
    /\ Returned("update_bookmark_context") /\ ret.ok
    /\ Cardinality(pre.rows) = 2
    /\ db.rows # pre.rows
    /\ Identities(db) = Identities(pre)

====
